---- MODULE Spec2Model ----
(***************************************************************************)
(* Model of texture_extraction/extract_final.py: parse_texture_map (the    *)
(* ARCHIVE_METADATA index reader), convert (the ordered backend chain) and *)
(* main (the per-identifier extraction loop and its summary).              *)
(*                                                                         *)
(* Bytes are integers 0..255, a file is a sequence of bytes addressed from *)
(* offset 0, text is a sequence of code points.  Whatever the script calls *)
(* outside itself (the filesystem, the image libraries, texconv.exe) is a  *)
(* nondeterministic choice among the outcomes that call can have.  stdout  *)
(* is not modelled.                                                        *)
(***************************************************************************)
EXTENDS Integers, Sequences, FiniteSets, TLC

VARIABLES
    meta,         \* the file ARCHIVE_META: whether it exists, and what
                  \* MkArchive builds its bytes from
    blobs,        \* identifiers n whose TEXTURE_DIR/texture_n exists
    twoch,        \* identifiers whose blob decodes to exactly two channels
    oracle,       \* what each backend does with each blob when the backends
                  \* are deterministic; NoOracle when they are not
    importable,   \* backends whose import statements succeed in this
                  \* installation
    texconvExe,   \* TEXCONV is an executable subprocess.run can start
    tree,         \* output tree: destination file |-> [size, n, by]
    dirs,         \* directories created by the run: set of [n, dir]
    scratch,      \* identifiers whose tmp_dir/texture_n.dds exists
    pc,           \* position of the run
    abort,        \* where an uncaught exception left the run ("" while none)
    table_off, comp_off, pn, index_map,     \* locals of parse_texture_map
    n, ok, failed, missing,                 \* locals of main
    dst, label, bi, errors, calls, ret,     \* the convert call of identifier n
    raised,       \* history: identifiers whose convert call raised
    invoked,      \* history: identifiers for which a backend was called
    summary,      \* what the summary block printed
    run,          \* 1 in the first run of the script, 2 in a second run
    first         \* what the first run left: << >> until it is over

vars == << meta, blobs, twoch, oracle, importable, texconvExe, run, first,
           tree, dirs, scratch, pc, abort,
           table_off, comp_off, pn, index_map, n, ok, failed, missing,
           dst, label, bi, errors, calls, ret, raised, invoked, summary >>

envVars   == << meta, blobs, twoch, oracle, importable, texconvExe >>
runVars   == << run, first >>
parseVars == << table_off, comp_off, pn, index_map >>
mainVars  == << n, ok, failed, missing, summary >>
histVars  == << raised, invoked >>
convVars  == << dst, label, bi, errors, calls, ret >>
fsVars    == << tree, dirs, scratch >>

(***************************************************************************)
(* Bounds of the model.                                                    *)
(***************************************************************************)
\* N_TEXTURES is 549 in the script (line 43); the model runs the same loops
\* over a smaller identifier range.
N_TEXTURES == 2
\* Number of 32-byte slots in the slot table of the modelled archives (1024
\* in the observed archive; the script itself never reads a slot count).
TableSlots == 2

(***************************************************************************)
(* Layout constants of parse_texture_map.                                  *)
(***************************************************************************)
HdrTableOff == 128      \* 0x0080
HdrCompOff  == 152      \* 0x0098
SlotSize    == 32
EntrySize   == 4

Min(a, b) == IF a < b THEN a ELSE b
Ids == 0 .. (N_TEXTURES - 1)

(***************************************************************************)
(* struct.unpack_from and byte slicing.                                    *)
(***************************************************************************)
ByteAt(d, off) == d[off + 1]

\* struct.unpack_from(fmt, d, off) raises struct.error unless the buffer holds
\* w bytes from off.
CanUnpack(d, off, w) == off + w <= Len(d)

RECURSIVE LEValue(_, _, _)
\* little-endian unsigned integer of w bytes at off ('<I': w = 4, '<Q': w = 8)
LEValue(d, off, w) ==
    IF w = 0 THEN 0 ELSE ByteAt(d, off) + 256 * LEValue(d, off + 1, w - 1)

\* d[a:b] for 0 <= a: the slice is clipped to the buffer, never an error
Slice(d, a, b) == SubSeq(d, a + 1, Min(b, Len(d)))

\* bytes.decode('ascii', errors='replace'): a byte above 127 becomes U+FFFD
Decode(bs) == [i \in 1 .. Len(bs) |-> IF bs[i] < 128 THEN bs[i] ELSE 65533]

\* the two header fields can be read
HasHeader(d) == CanUnpack(d, HdrTableOff, 4) /\ CanUnpack(d, HdrCompOff, 4)

(***************************************************************************)
(* One iteration of the loop of parse_texture_map, for identifier k.       *)
(***************************************************************************)
SlotOffset(toff, slot) == toff + slot * SlotSize

\* the slot record read at off is used only when it lies inside the file
SlotInFile(d, off) == ~(off + SlotSize > Len(d))

\* the test that makes a slot's string descriptor a path
Occupied(d, str_abs, str_len) == str_len > 0 /\ 0 < str_abs /\ str_abs < Len(d)

ResolveEntry(d, toff, coff, k) ==
    IF ~CanUnpack(d, coff + k * EntrySize, 4)
    THEN [kind |-> "raise", path |-> << >>]
    ELSE LET slot == LEValue(d, coff + k * EntrySize, 4)
             off  == SlotOffset(toff, slot)
         IN  IF ~SlotInFile(d, off)
             THEN [kind |-> "unmapped", path |-> << >>]
             ELSE LET str_abs == LEValue(d, off + 8, 8)
                      str_len == LEValue(d, off + 16, 8)
                  IN  IF Occupied(d, str_abs, str_len)
                      THEN [kind |-> "mapped",
                            path |-> Decode(Slice(d, str_abs, str_abs + str_len))]
                      ELSE [kind |-> "unmapped", path |-> << >>]

(***************************************************************************)
(* Archives the model is run on.  The layout is the one the docstring of   *)
(* parse_texture_map describes: a slot table at table_off, the companion   *)
(* (indirection) array at comp_off, path strings elsewhere in the file.    *)
(* Here the slot table starts right after the header fields, the companion *)
(* array follows it, then one more 32-byte record that belongs to no       *)
(* table (the "trailer"), then the path strings.                           *)
(***************************************************************************)
Zeros(len) == [i \in 1 .. len |-> 0]

RECURSIVE LE(_, _)
\* the w little-endian bytes of v
LE(v, w) == IF w = 0 THEN << >> ELSE << v % 256 >> \o LE(v \div 256, w - 1)

\* d with bs written at off, for off + Len(bs) <= Len(d)
Poke(d, off, bs) == SubSeq(d, 1, off) \o bs \o SubSeq(d, off + Len(bs) + 1, Len(d))

TableOff   == HdrCompOff + 4
CompOff    == TableOff + TableSlots * SlotSize
TrailerOff == TableOff + (TableSlots + 1) * SlotSize
StrOff     == TableOff + (TableSlots + 2) * SlotSize
\* the string area: "d/t.x", the byte 200, "../_unmatched/texture_0.x"
StrBytes   == << 100, 47, 116, 46, 120, 200,
                 46, 46, 47, 95, 117, 110, 109, 97, 116, 99, 104, 101, 100,
                 47, 116, 101, 120, 116, 117, 114, 101, 95, 48, 46, 120 >>
FullLen    == StrOff + Len(StrBytes)
\* an offset far beyond the end of every modelled archive
FarOff     == FullLen + 100000

\* a slot record {hash, string_abs_offset: u64, string_length: u64, extra: u64}
SlotBytes(sabs, slen) == LE(0, 8) \o LE(sabs, 8) \o LE(slen, 8) \o LE(0, 8)

RECURSIVE PokeSlots(_, _, _)
PokeSlots(d, slots, i) ==
    IF i > Len(slots) THEN d
    ELSE PokeSlots(Poke(d, TableOff + (i - 1) * SlotSize,
                        SlotBytes(slots[i][1], slots[i][2])), slots, i + 1)

RECURSIVE PokeEntries(_, _, _)
PokeEntries(d, ind, i) ==
    IF i > Len(ind) THEN d
    ELSE PokeEntries(Poke(d, CompOff + (i - 1) * EntrySize, LE(ind[i], 4)), ind, i + 1)

\* the archive of length len whose header names thdr and chdr, whose slot i-1
\* holds the descriptor slots[i], whose entry k is ind[k+1] and whose trailer
\* holds the descriptor trailer
MkArchive(len, thdr, chdr, slots, ind, trailer) ==
    LET d0 == Poke(Poke(Zeros(FullLen), HdrTableOff, LE(thdr, 4)), HdrCompOff, LE(chdr, 4))
        d1 == PokeSlots(d0, slots, 1)
        d2 == PokeEntries(d1, ind, 1)
        d3 == Poke(d2, TrailerOff, SlotBytes(trailer[1], trailer[2]))
        d4 == Poke(d3, StrOff, StrBytes)
    IN  SubSeq(d4, 1, len)

\* string descriptors <<string_abs_offset, string_length>>
DescFull    == << StrOff, 5 >>          \* "d/t.x"
DescBase    == << StrOff + 2, 3 >>      \* "t.x"
DescNonAsc  == << StrOff + 2, 4 >>      \* "t.x" and the byte 200
DescEmpty   == << 0, 0 >>
DescLenZero == << StrOff, 0 >>
DescAbsZero == << 0, 3 >>               \* a string at offset 0 of the file
DescOverrun == << FullLen - 2, 5 >>     \* starts inside, ends beyond the file
DescBeyond  == << FullLen + 5, 3 >>     \* starts beyond the file
DescClimb   == << StrOff + 6, 25 >>     \* "../_unmatched/texture_0.x"
DescRooted  == << StrOff + 8, 23 >>     \* "/_unmatched/texture_0.x"
DescUnder   == << StrOff + 9, 22 >>     \* "_unmatched/texture_0.x"

Descs == { DescFull, DescBase, DescNonAsc, DescEmpty, DescLenZero,
           DescAbsZero, DescOverrun, DescBeyond }

\* slot 0 holds desc, every other slot of the table holds "d/t.x"
SlotsWith(desc) == [i \in 1 .. TableSlots |-> IF i = 1 THEN desc ELSE DescFull]

\* slot indices an entry may hold: in the table, the trailer record after the
\* companion array, and the index 1050 of the scenario
SlotChoices == { 0, TableSlots - 1, TableSlots + 1, 1050 }

\* file lengths: short of the first header field, short of the second, the
\* header alone, cut inside companion entry 1, whole
LenChoices == { HdrTableOff + 2, HdrCompOff + 2, HdrCompOff + 4,
                CompOff + 6, FullLen }

ParseArchives ==
    [ exists : { TRUE }, len : LenChoices, thdr : { TableOff, FarOff },
      chdr : { CompOff, FullLen - 2, FarOff },
      slots : { SlotsWith(desc) : desc \in Descs },
      ind : [1 .. N_TEXTURES -> SlotChoices],
      trailer : { DescEmpty, DescBase } ]

\* the bytes f.read() returns (line 129)
data == MkArchive(meta.len, meta.thdr, meta.chdr, meta.slots, meta.ind, meta.trailer)
metaExists == meta.exists

(***************************************************************************)
(* parse_texture_map, one action per step.                                 *)
(***************************************************************************)
NoMap == [k \in {} |-> << >>]

\* lines 128-132: open and read the file, unpack the two header fields
ParseBegin ==
    /\ pc = "start"
    /\ IF ~metaExists
       THEN /\ pc' = "aborted" /\ abort' = "open"
            /\ UNCHANGED parseVars
       ELSE LET d == data IN
            IF ~HasHeader(d)
       THEN /\ pc' = "aborted" /\ abort' = "header"
            /\ UNCHANGED parseVars
       ELSE /\ table_off' = LEValue(d, HdrTableOff, 4)
            /\ comp_off' = LEValue(d, HdrCompOff, 4)
            /\ index_map' = NoMap
            /\ pn' = 0
            /\ pc' = "parse"
            /\ UNCHANGED abort
    /\ UNCHANGED << envVars, runVars, fsVars, mainVars, convVars, histVars >>

\* lines 135-144: the loop body for identifier pn
ParseEntry ==
    /\ pc = "parse"
    /\ pn < N_TEXTURES
    /\ LET r == ResolveEntry(data, table_off, comp_off, pn)
       IN  IF r.kind = "raise"
           THEN /\ pc' = "aborted" /\ abort' = "entry"
                /\ UNCHANGED << pn, index_map >>
           ELSE /\ index_map' = IF r.kind = "mapped"
                                THEN (pn :> r.path) @@ index_map
                                ELSE index_map
                /\ pn' = pn + 1
                /\ UNCHANGED << pc, abort >>
    /\ UNCHANGED << envVars, runVars, fsVars, mainVars, convVars, histVars, table_off, comp_off >>

\* line 146: return index_map
ParseReturn ==
    /\ pc = "parse"
    /\ pn = N_TEXTURES
    /\ pc' = "parsed"
    /\ UNCHANGED << envVars, runVars, fsVars, mainVars, convVars, histVars, parseVars, abort >>

NoDst == [dir |-> << >>, name |-> << >>]
\* no oracle: every call of a backend may end in any of its outcomes
NoOracle == << >>

InitLocals ==
    /\ pc = "start" /\ abort = ""
    /\ table_off = 0 /\ comp_off = 0 /\ pn = 0 /\ index_map = NoMap
    /\ n = 0 /\ ok = 0 /\ failed = << >> /\ missing = << >>
    /\ dst = NoDst /\ label = << >> /\ bi = 0 /\ errors = << >>
    /\ calls = << >> /\ ret = ""
    /\ raised = {} /\ invoked = {} /\ summary = << >>
    /\ dirs = {} /\ scratch = {}
    /\ run = 1 /\ first = << >>

\* parse_texture_map alone, over every archive of ParseArchives
InitParse ==
    /\ meta \in ParseArchives
    /\ blobs = {} /\ importable = {} /\ texconvExe = FALSE /\ tree = NoMap
    /\ twoch = {} /\ oracle = NoOracle
    /\ InitLocals

NextParse == ParseBegin \/ ParseEntry \/ ParseReturn

SpecParse == InitParse /\ [][NextParse]_vars

(***************************************************************************)
(* Text: os.path on the paths main handles.  A path is a sequence of code  *)
(* points; '/' is 47, '\' is 92, '.' is 46.  The paths decoded from the    *)
(* modelled archives name no drive.                                        *)
(***************************************************************************)
IsSep(c) == c \in { 47, 92 }

\* the largest member of the set of indices hits, 0 when it is empty
Last(hits) == IF hits = {} THEN 0 ELSE CHOOSE i \in hits : \A j \in hits : j <= i

\* the index of the last separator of p, 0 when there is none
LastSep(p) == Last({ i \in 1 .. Len(p) : IsSep(p[i]) })

RECURSIVE RStripSep(_)
RStripSep(p) ==
    IF p # << >> /\ IsSep(p[Len(p)]) THEN RStripSep(SubSeq(p, 1, Len(p) - 1)) ELSE p

\* os.path.dirname(p): the head of split(p), trailing separators stripped
\* unless it consists of separators only
Dirname(p) ==
    LET head == SubSeq(p, 1, LastSep(p))
    IN  IF RStripSep(head) = << >> THEN head ELSE RStripSep(head)

\* os.path.basename(p): what follows the last separator
Basename(p) == SubSeq(p, LastSep(p) + 1, Len(p))

\* p.rfind('.') + 1
LastDot(p) == Last({ i \in 1 .. Len(p) : p[i] = 46 })

\* os.path.splitext(b)[0] for b without separators: cut at the last dot,
\* unless only dots precede it
Stem(b) ==
    LET dot == LastDot(b)
    IN  IF dot > 0 /\ \E j \in 1 .. dot - 1 : b[j] # 46
        THEN SubSeq(b, 1, dot - 1) ELSE b

\* s.replace('/', os.sep)
ReplaceSlash(p) == [i \in 1 .. Len(p) |-> IF p[i] = 47 THEN 92 ELSE p[i]]

RECURSIVE Digits(_)
\* str(k) for k >= 0
Digits(k) == IF k < 10 THEN << 48 + k >> ELSE Digits(k \div 10) \o << 48 + (k % 10) >>

StrTexture   == << 116, 101, 120, 116, 117, 114, 101, 95 >>           \* "texture_"
StrPng       == << 46, 112, 110, 103 >>                               \* ".png"
StrUnmatched == << 95, 117, 110, 109, 97, 116, 99, 104, 101, 100 >>   \* "_unmatched"

\* key = f'texture_{n}' (line 170)
Key(k) == StrTexture \o Digits(k)

\* index_map.get(k): the path, or << >> for None (no mapped path is empty)
GamePath(map, k) == IF k \in DOMAIN map THEN map[k] ELSE << >>

\* lines 184-194: dst_png as the directory below OUTPUT_DIR and the file name
DstOf(k, game_path) ==
    IF game_path # << >>
    THEN [dir  |-> ReplaceSlash(Dirname(game_path)),
          name |-> Stem(Basename(game_path)) \o StrPng]
    ELSE [dir |-> StrUnmatched, name |-> Key(k) \o StrPng]

\* lines 190 and 194: label
LabelOf(k, game_path) ==
    IF game_path # << >>
    THEN Dirname(game_path) \o << 47 >> \o Stem(Basename(game_path)) \o StrPng
    ELSE StrUnmatched \o << 47 >> \o Key(k) \o StrPng

(***************************************************************************)
(* The backends (lines 49-95) and convert (lines 98-110).                  *)
(***************************************************************************)
BACKENDS == << "imageio", "Wand", "Pillow", "texconv" >>

\* An image is the sequence of its channels, a channel being named by what
\* it holds.  The image a backend decodes from the blob of identifier k
\* (line 52, and the decoders of the other backends):
Decoded(k) == IF k \in twoch THEN << "r", "g" >> ELSE << "r", "g", "b", "a" >>

\* try_imageio, lines 54-59: a two-channel image is copied into the first
\* two channels of a zero-filled four-channel image
Pad(img) == IF Len(img) = 2 THEN << img[1], img[2], "zero", "zero" >> ELSE img

\* the image fn(src, dst) hands to its PNG writer (lines 60, 67, 72, 78)
Emitted(name, k) == IF name = "imageio" THEN Pad(Decoded(k)) ELSE Decoded(k)

\* a file of the output tree: whether it holds image bytes, the identifier
\* whose convert call wrote it (-1: left by an earlier run), the writer and
\* the channels of the image in it
File(size, k, by, ch) == [size |-> size, n |-> k, by |-> by, ch |-> ch]

Exists(t, f) == f \in DOMAIN t

\* try_texconv, lines 76-82: texconv writes out_dir/<stem of src>.png
Expected(d, k) == [dir |-> d.dir, name |-> Key(k) \o StrPng]

\* Outcomes of one call fn(src, dst) of the three library backends:
\*   "import"  the import statement raises ImportError
\*   "error"   the library raises before it creates dst
\*   "partial" the library creates (truncates) dst, then raises
\*   "written" the library writes dst and returns
LibOutcomes(name) ==
    IF name \in importable THEN { "error", "partial", "written" } ELSE { "import" }

\* Outcomes of try_texconv:
\*   "noexe"    subprocess.run raises FileNotFoundError: TEXCONV is absent
\*   "nooutput" texconv runs and writes nothing
\*   "output"   texconv runs and writes the expected file
TexconvOutcomes == IF texconvExe THEN { "nooutput", "output" } ELSE { "noexe" }

Outcomes(name) == IF name = "texconv" THEN TexconvOutcomes ELSE LibOutcomes(name)

\* the outcomes fn(src, dst) can have for the blob of identifier k: with
\* deterministic backends, the one outcome the backend has for that blob
OutcomesFor(name, k) ==
    IF oracle = NoOracle THEN Outcomes(name) ELSE { oracle[k][name] }

\* the output tree after fn(src, dst) with outcome o
TreeAfter(t, name, o, d, k) ==
    IF name # "texconv"
    THEN CASE o = "written" -> (d :> File("image", k, name, Emitted(name, k))) @@ t
           [] o = "partial" -> (d :> File("empty", k, name, << >>)) @@ t
           [] OTHER         -> t
    ELSE LET e  == Expected(d, k)
             t1 == IF o = "output"
                   THEN (e :> File("image", k, name, Emitted(name, k))) @@ t ELSE t
         IN  \* lines 83-85: os.replace(expected, dst) when they differ
             IF Exists(t1, e) /\ e # d
             THEN (d :> t1[e]) @@ [f \in DOMAIN t1 \ { e } |-> t1[f]]
             ELSE t1

\* how fn(src, dst) ends: "return", "ImportError" or "Exception"
Ending(t, name, o, d, k) ==
    IF name # "texconv"
    THEN CASE o = "written" -> "return"
           [] o = "import"  -> "ImportError"
           [] OTHER         -> "Exception"
    ELSE IF o = "noexe" THEN "Exception"
         ELSE IF o = "output" \/ Exists(t, Expected(d, k))    \* line 83
              THEN "return" ELSE "Exception"                   \* line 87

\* line 109: errors.append(f'{name}: {e}')
ErrorEntry(name, o) == [name |-> name, text |-> o]

\* (mutation: the test of line 104 never lets convert return)
SucceededNever(t, d) == FALSE

\* line 104
Succeeded(t, d) == Exists(t, d)

\* the loop has gone through BACKENDS
Exhausted(i) == i > Len(BACKENDS)

\* line 110: the message of the RuntimeError, as its lines
\* ('All backends failed:' and then one line per entry; with no entry the
\* join is empty and a blank line follows the head)
AggregateError(errs) ==
    << [name |-> "", text |-> "All backends failed:"] >> \o
    (IF errs = << >> THEN << [name |-> "", text |-> ""] >> ELSE errs)

\* lines 101-109: one iteration of the loop of convert, for BACKENDS[bi]
ConvertStep ==
    /\ pc = "convert"
    /\ ~Exhausted(bi)
    /\ \E o \in OutcomesFor(BACKENDS[bi], n) :
         LET name == BACKENDS[bi]
             end  == Ending(tree, name, o, dst, n)
             t1   == TreeAfter(tree, name, o, dst, n)
         IN  /\ tree' = t1
             /\ calls' = Append(calls, [name |-> name, outcome |-> o, end |-> end])
             /\ errors' = IF end = "Exception"
                          THEN Append(errors, ErrorEntry(name, o)) ELSE errors
             /\ IF end = "return" /\ Succeeded(t1, dst)
                THEN /\ ret' = name /\ pc' = "returned" /\ bi' = bi
                ELSE /\ ret' = ret /\ pc' = pc /\ bi' = bi + 1
    /\ invoked' = invoked \cup { n }
    /\ UNCHANGED << envVars, runVars, parseVars, mainVars, dirs, scratch, dst, label, abort, raised >>

\* line 110: every backend was tried and none returned with dst in place
ConvertRaise ==
    /\ pc = "convert"
    /\ Exhausted(bi)
    /\ pc' = "raising"
    /\ raised' = raised \cup { n }
    /\ UNCHANGED << envVars, runVars, parseVars, mainVars, fsVars, convVars, abort, invoked >>

(***************************************************************************)
(* main (lines 151-230).                                                   *)
(***************************************************************************)
\* lines 153-168: index_map is back; create OUTPUT_DIR, enter the with block.
\* os.makedirs may raise (mk = FALSE), which nothing catches.
MainBegin ==
    /\ pc = "parsed"
    /\ \E mk \in BOOLEAN :
         IF mk
         THEN /\ pc' = "loop" /\ n' = 0 /\ ok' = 0
              /\ failed' = << >> /\ missing' = << >>
              /\ UNCHANGED abort
         ELSE /\ pc' = "aborted" /\ abort' = "mkroot"
              /\ UNCHANGED << n, ok, failed, missing >>
    /\ UNCHANGED << envVars, runVars, parseVars, fsVars, convVars, histVars, summary >>

\* (mutation: break instead of continue at line 176)
IterMissingBreak ==
    /\ pc = "loop"
    /\ n < N_TEXTURES
    /\ n \notin blobs
    /\ missing' = Append(missing, n)
    /\ n' = N_TEXTURES
    /\ UNCHANGED << envVars, runVars, parseVars, fsVars, convVars, histVars, pc, abort, ok,
                    failed, summary >>

\* lines 169-176: the blob of identifier n is not on disk
IterMissing ==
    /\ pc = "loop"
    /\ n < N_TEXTURES
    /\ n \notin blobs
    /\ missing' = Append(missing, n)
    /\ n' = n + 1
    /\ UNCHANGED << envVars, runVars, parseVars, fsVars, convVars, histVars, pc, abort, ok,
                    failed, summary >>

\* lines 169-197: the blob is there; copy it to the scratch file, compute and
\* create the destination directory, call convert.  shutil.copy2 (cp) and
\* os.makedirs (mk) may raise, which nothing catches: the with block is left
\* and TemporaryDirectory removes tmp_dir.
IterBegin ==
    /\ pc = "loop"
    /\ n < N_TEXTURES
    /\ n \in blobs
    /\ \E cp \in BOOLEAN, mk \in BOOLEAN :
         LET game_path == GamePath(index_map, n)
             d         == DstOf(n, game_path)
         IN  IF ~cp
             THEN /\ pc' = "aborted" /\ abort' = "copy"
                  /\ scratch' = {}
                  /\ UNCHANGED << dirs, convVars >>
             ELSE IF ~mk
             THEN /\ pc' = "aborted" /\ abort' = "makedirs"
                  /\ scratch' = {}
                  /\ UNCHANGED << dirs, convVars >>
             ELSE /\ scratch' = scratch \cup { n }
                  /\ dirs' = dirs \cup { [n |-> n, dir |-> d.dir] }
                  /\ dst' = d
                  /\ label' = LabelOf(n, game_path)
                  /\ bi' = 1 /\ errors' = << >> /\ calls' = << >> /\ ret' = ""
                  /\ pc' = "convert"
                  /\ UNCHANGED abort
    /\ UNCHANGED << envVars, runVars, parseVars, mainVars, histVars, tree >>

\* lines 198-200: convert returned
RecordOk ==
    /\ pc = "returned"
    /\ ok' = ok + 1
    /\ pc' = "cleanup"
    /\ UNCHANGED << envVars, runVars, parseVars, fsVars, convVars, histVars, abort, n, failed,
                    missing, summary >>

\* (mutation: ok is incremented before convert is known to have returned)
RecordFailCounted ==
    /\ pc = "raising"
    /\ failed' = Append(failed, [n |-> n, label |-> label, err |-> AggregateError(errors)])
    /\ ok' = ok + 1
    /\ pc' = "cleanup"
    /\ UNCHANGED << envVars, runVars, parseVars, fsVars, convVars, histVars, abort, n,
                    missing, summary >>

\* lines 201-203: convert raised
RecordFail ==
    /\ pc = "raising"
    /\ failed' = Append(failed, [n |-> n, label |-> label, err |-> AggregateError(errors)])
    /\ pc' = "cleanup"
    /\ UNCHANGED << envVars, runVars, parseVars, fsVars, convVars, histVars, abort, n, ok, missing,
                    summary >>

\* lines 205-208: os.remove(tmp_dds); an OSError (rm = FALSE) is swallowed
Cleanup ==
    /\ pc = "cleanup"
    /\ \E rm \in BOOLEAN : scratch' = IF rm THEN scratch \ { n } ELSE scratch
    /\ n' = n + 1
    /\ pc' = "loop"
    /\ UNCHANGED << envVars, runVars, parseVars, tree, dirs, convVars, histVars, abort, ok, failed,
                    missing, summary >>

\* line 168: the loop is over, the with block ends and removes tmp_dir
LoopExit ==
    /\ pc = "loop"
    /\ n = N_TEXTURES
    /\ scratch' = {}
    /\ pc' = "summary"
    /\ UNCHANGED << envVars, runVars, parseVars, tree, dirs, convVars, histVars, abort, mainVars >>

\* (mutation: the failure count also counts the missing blobs)
SummaryOfMiscount(map, fl, ms) ==
    [ named          |-> Cardinality(DOMAIN map),
      unnamed        |-> N_TEXTURES - Cardinality(DOMAIN map),
      namedConverted |-> Cardinality({ k \in Ids : k \in DOMAIN map
                                         /\ k \notin { fl[i].n : i \in 1 .. Len(fl) } }),
      failedCount    |-> Len(fl) + Len(ms),
      missingCount   |-> Len(ms),
      failedN        |-> [i \in 1 .. Len(fl) |-> fl[i].n],
      details        |-> fl ]

\* lines 211-230: the printed summary
SummaryOf(map, fl, ms) ==
    LET failed_ns == { fl[i].n : i \in 1 .. Len(fl) }
        named     == Cardinality(DOMAIN map)
    IN  [ named          |-> named,
          unnamed        |-> N_TEXTURES - named,
          namedConverted |-> Cardinality({ k \in Ids : k \in DOMAIN map /\ k \notin failed_ns }),
          failedCount    |-> Len(fl),
          missingCount   |-> Len(ms),
          failedN        |-> [i \in 1 .. Len(fl) |-> fl[i].n],
          details        |-> fl ]

Summary ==
    /\ pc = "summary"
    /\ summary' = << SummaryOf(index_map, failed, missing) >>
    /\ pc' = "done"
    /\ UNCHANGED << envVars, runVars, parseVars, fsVars, convVars, histVars, abort, n, ok, failed,
                    missing >>

(***************************************************************************)
(* The runs of the script.                                                 *)
(***************************************************************************)
\* a whole archive whose entries hold the slot indices ind
Archive(ind, desc) ==
    [ exists |-> TRUE, len |-> FullLen, thdr |-> TableOff, chdr |-> CompOff,
      slots |-> SlotsWith(desc), ind |-> ind, trailer |-> DescEmpty ]

\* entry k names slot k (modulo the table size)
IndInTable == [i \in 1 .. N_TEXTURES |-> (i - 1) % TableSlots]
\* the last entry names slot 1050
IndLastOut == [i \in 1 .. N_TEXTURES |-> IF i = N_TEXTURES THEN 1050 ELSE (i - 1) % TableSlots]

\* slot 0 holds "t.x", every other slot "t.x" and the byte 200
SlotsAlike == [i \in 1 .. TableSlots |-> IF i = 1 THEN DescBase ELSE DescNonAsc]

MainArchives ==
    { Archive(IndInTable, DescBase),
      Archive(IndLastOut, DescNonAsc),
      Archive(IndInTable, DescClimb),
      Archive(IndInTable, DescRooted),
      Archive(IndLastOut, DescUnder),
      [Archive(IndInTable, DescBase) EXCEPT !.slots = SlotsAlike],
      [Archive(IndInTable, DescFull) EXCEPT !.len = CompOff + 6],
      [Archive(IndInTable, DescFull) EXCEPT !.len = HdrCompOff + 2],
      [Archive(IndInTable, DescFull) EXCEPT !.exists = FALSE] }

\* installations: which backends import, and whether texconv.exe is there
Installations == [ libs : SUBSET { "imageio", "Wand", "Pillow" }, exe : BOOLEAN ]

\* output trees a run may start on: none, or one left by an earlier run
StaleFile == [dir |-> StrUnmatched, name |-> Key(0) \o StrPng]
InitialTrees ==
    { NoMap, StaleFile :> File("image", -1, "earlier run", << "r", "g", "b", "a" >>) }

Init ==
    /\ meta \in MainArchives
    /\ blobs \in SUBSET Ids
    /\ \E inst \in Installations : importable = inst.libs /\ texconvExe = inst.exe
    /\ tree \in InitialTrees
    /\ twoch = {} /\ oracle = NoOracle
    /\ InitLocals

Next ==
    \/ ParseBegin \/ ParseEntry \/ ParseReturn
    \/ MainBegin \/ IterMissing \/ IterBegin
    \/ ConvertStep \/ ConvertRaise
    \/ RecordOk \/ RecordFail \/ Cleanup
    \/ LoopExit \/ Summary

Spec == Init /\ [][Next]_vars

(***************************************************************************)
(* Two runs of the script, one after the other, on the same archive and    *)
(* blobs, with backends that do the same thing with the same blob each     *)
(* time they are called.                                                   *)
(***************************************************************************)
BackendNames == { BACKENDS[i] : i \in 1 .. Len(BACKENDS) }

\* what the backends of this installation may do with one blob
Behaviours ==
    { f \in [BackendNames -> { "import", "error", "partial", "written",
                               "noexe", "nooutput", "output" }] :
        \A name \in BackendNames : f[name] \in Outcomes(name) }

\* the first entry names slot 1050, the others slot 0
IndFirstOut == [i \in 1 .. N_TEXTURES |-> IF i = 1 THEN 1050 ELSE 0]

TwiceArchives == { Archive(IndLastOut, DescBase), Archive(IndFirstOut, DescUnder) }

TwiceInstallations == [ libs : { {}, { "Pillow" } }, exe : BOOLEAN ]

InitTwice ==
    /\ meta \in TwiceArchives
    /\ blobs \in SUBSET Ids
    /\ \E inst \in TwiceInstallations : importable = inst.libs /\ texconvExe = inst.exe
    /\ oracle \in [Ids -> Behaviours]
    /\ tree \in InitialTrees
    /\ twoch = {}
    /\ InitLocals

\* what a run leaves behind: the output tree and the counts of its summary
Left == [ tree |-> tree, ok |-> ok, failed |-> Len(failed), missing |-> Len(missing) ]

\* lines 232-233: the script is run again, on the output tree as it is
Rerun ==
    /\ pc = "done"
    /\ run = 1
    /\ run' = 2
    /\ first' = << Left >>
    /\ pc' = "start" /\ abort' = ""
    /\ table_off' = 0 /\ comp_off' = 0 /\ pn' = 0 /\ index_map' = NoMap
    /\ n' = 0 /\ ok' = 0 /\ failed' = << >> /\ missing' = << >>
    /\ dst' = NoDst /\ label' = << >> /\ bi' = 0 /\ errors' = << >>
    /\ calls' = << >> /\ ret' = ""
    /\ raised' = {} /\ invoked' = {} /\ summary' = << >>
    /\ dirs' = {} /\ scratch' = {}
    /\ UNCHANGED << envVars, tree >>

NextTwice == Next \/ Rerun

SpecTwice == InitTwice /\ [][NextTwice]_vars

(***************************************************************************)
(* Runs in which some blobs decode to exactly two channels.                *)
(***************************************************************************)
InitChannels ==
    /\ meta = Archive(IndLastOut, DescBase)
    /\ blobs \in SUBSET Ids
    /\ twoch \in SUBSET blobs
    /\ \E inst \in Installations : importable = inst.libs /\ texconvExe = inst.exe
    /\ tree \in InitialTrees
    /\ oracle = NoOracle
    /\ InitLocals

SpecChannels == InitChannels /\ [][Next]_vars

(***************************************************************************)
(* The claims.                                                             *)
(***************************************************************************)
\* the slot index parse_texture_map read for identifier k (k < pn)
EntryOf(k) == LEValue(data, comp_off + k * EntrySize, 4)
Mapped(k) == k \in DOMAIN index_map
ToSet(seq) == { seq[i] : i \in 1 .. Len(seq) }

\* C1: for every archive that holds both header fields, parse_texture_map
\* never raises: no identifier's indirection entry or slot stops the
\* resolution of the identifiers after it.
C1_ParseNeverRaises == (metaExists /\ HasHeader(data)) => abort # "entry"

\* C2: an identifier whose indirection entry is greater than or equal to the
\* number of slots of the slot table is left unmapped, whatever bytes follow
\* the table.
C2_SlotIndexValidated ==
    \A k \in Ids : (k < pn /\ EntryOf(k) >= TableSlots) => ~Mapped(k)

\* C3: an identifier whose slot lies inside the file is mapped if and only if
\* string_length > 0 and string_abs_offset + string_length <= file length,
\* and then its path decodes exactly those string_length bytes.
C3_MappedIffDescriptorFits ==
    \A k \in Ids :
        LET d   == data
            off == table_off + EntryOf(k) * SlotSize
        IN  (k < pn /\ off + SlotSize <= Len(d)) =>
                LET str_abs == LEValue(d, off + 8, 8)
                    str_len == LEValue(d, off + 16, 8)
                    fits    == str_len > 0 /\ str_abs + str_len <= Len(d)
                IN  /\ Mapped(k) <=> fits
                    /\ Mapped(k) =>
                         index_map[k] = Decode(SubSeq(d, str_abs + 1, str_abs + str_len))

\* C4: no error raised while handling one identifier (copying its blob,
\* creating its destination directory, converting it, removing its scratch
\* file) stops the run.
C4_LoopNeverAborts == abort \notin { "copy", "makedirs" }

\* C5: the run aborts only when the metadata file is absent or too short for
\* its two header fields; with both header fields present it reaches the
\* summary.
C5_OnlyHeaderIsFatal == pc = "aborted" => (~metaExists \/ ~HasHeader(data))

\* the priority order the backends are to be tried in
PriorityOrder == << "imageio", "Wand", "Pillow", "texconv" >>

\* C6: within one call of convert the backends are invoked in the order
\* imageio, Wand, Pillow, texconv, each at most once, and no backend is
\* invoked after one that succeeded.
C6_BackendOrder ==
    /\ Len(calls) <= Len(PriorityOrder)
    /\ \A i \in 1 .. Len(calls) :
         /\ calls[i].name = PriorityOrder[i]
         /\ calls[i].end = "return" => i = Len(calls)
    /\ pc = "returned" => (calls # << >> /\ calls[Len(calls)].name = ret)

\* a later backend succeeded after an earlier one was tried and did not
C6_Witness ==
    /\ pc = "returned" /\ ret = "Pillow"
    /\ Len(calls) = 3 /\ calls[1].end = "Exception" /\ calls[2].end = "Exception"

\* C7: when convert returns the name X, the destination file exists, is
\* non-empty and was produced by X in this call, and every backend before X
\* declined or failed.
C7_ReturnMeansProduced ==
    pc = "returned" =>
        /\ Exists(tree, dst)
        /\ tree[dst] = File("image", n, ret, Emitted(ret, n))
        /\ \A i \in 1 .. Len(calls) - 1 : calls[i].end \in { "ImportError", "Exception" }

\* a backend declines when what it needs at run time is not there: the
\* library cannot be imported, texconv.exe cannot be started
Declined(c) == c.outcome \in { "import", "noexe" }

\* the backends of the current convert call that attempted and failed
Attempted == SelectSeq(calls, LAMBDA c : ~Declined(c))

\* C8: when no backend succeeds convert raises one aggregated error: every
\* backend was tried, the entries are those of exactly the backends that
\* attempted and failed, one each, in trial order; a backend that declined
\* because its runtime dependency is unavailable contributes no entry.
C8_AggregatedError ==
    pc = "raising" =>
        /\ [i \in 1 .. Len(calls) |-> calls[i].name] = PriorityOrder
        /\ [i \in 1 .. Len(errors) |-> errors[i].name]
             = [i \in 1 .. Len(Attempted) |-> Attempted[i].name]

\* every backend of the current call attempted and failed
AllFourFailed ==
    Len(calls) = 4 /\ \A i \in 1 .. 4 : calls[i].end = "Exception"

\* C9: when all four backends attempt and fail for an identifier the
\* aggregated error has four entries (one per backend) and the identifier
\* counts once as failed; the failure count of the summary is the number of
\* identifiers whose convert call raised.
C9_FailureCount ==
    /\ (pc = "raising" /\ AllFourFailed) =>
         /\ Len(errors) = 4
         /\ Cardinality({ errors[i] : i \in 1 .. Len(errors) }) = 4
    /\ pc \in { "loop", "summary", "done" } =>
         /\ Len(failed) = Cardinality(raised)
         /\ { failed[i].n : i \in 1 .. Len(failed) } = raised
    /\ pc = "done" => summary[1].failedCount = Cardinality(raised)

\* the run completed after all four backends failed for an identifier
C9_Witness ==
    /\ pc = "done"
    /\ summary[1].failedCount >= 1
    /\ \E i \in 1 .. Len(failed) : Len(failed[i].err) = 5

\* C10: an identifier whose blob is absent is recorded as missing; no scratch
\* file and no destination directory is created for it and no backend is
\* invoked for it; the loop goes on to the identifiers after it.
C10_MissingBlob ==
    /\ \A k \in Ids \ blobs :
         /\ k \notin scratch
         /\ k \notin invoked
         /\ \A d \in dirs : d.n # k
         /\ (pc \in { "loop", "convert", "returned", "raising", "cleanup" } /\ k < n)
              => k \in ToSet(missing)
         /\ pc \in { "summary", "done" } => k \in ToSet(missing)
    /\ \A i \in 1 .. Len(missing) : missing[i] \notin blobs /\ missing[i] < n
    /\ pc \in { "summary", "done" } => \A k \in blobs : k \in invoked

\* the identifier after a missing one was converted
C10_Witness ==
    /\ pc = "done"
    /\ \E k \in Ids : k \notin blobs /\ k + 1 \in invoked /\ k \in ToSet(missing)

\* C11: the scratch copy of an identifier is removed on every exit path of
\* its iteration: when the loop begins the iteration of identifier n no
\* scratch file of an identifier before n exists, and none exists when the
\* run has ended.
C11_ScratchRemoved ==
    /\ pc = "loop" => \A k \in scratch : k >= n
    /\ pc \in { "summary", "done", "aborted" } => scratch = {}

\* the identifiers whose convert call returned
Converted == invoked \ raised

\* C12: the counts of the summary are exact: the converted-with-path count is
\* the number of identifiers with a resolved path whose conversion succeeded
\* (a missing blob is not one), the converted-unmatched count is the number
\* of identifiers without a resolved path whose conversion succeeded, and
\* the missing count is the number of identifiers whose blob was absent.
C12_SummaryCountsExact ==
    pc = "done" =>
        /\ summary[1].namedConverted = Cardinality({ k \in Converted : Mapped(k) })
        /\ summary[1].unnamed = Cardinality({ k \in Converted : ~Mapped(k) })
        /\ summary[1].missingCount = Cardinality(Ids \ blobs)

\* the identifier of the convert call in progress or just ended
InCall == pc \in { "convert", "returned", "raising", "cleanup" }

\* the directory dir, relative to the output root, is the unmatched
\* directory or lies below it
UnderUnmatched(dir) ==
    \/ dir = StrUnmatched
    \/ /\ Len(dir) > Len(StrUnmatched)
       /\ SubSeq(dir, 1, Len(StrUnmatched)) = StrUnmatched
       /\ IsSep(dir[Len(StrUnmatched) + 1])

\* C13: the destination passed to convert for identifier n is, when n has a
\* resolved path p, the directory part of p below the output root with the
\* base name of p, its extension replaced by .png, and otherwise
\* _unmatched/texture_n.png; an identifier with a resolved path is never
\* placed under the unmatched directory, one without is never placed
\* outside it.
C13_Destination ==
    InCall =>
        IF Mapped(n)
        THEN /\ dst.dir = ReplaceSlash(Dirname(index_map[n]))
             /\ dst.name = Stem(Basename(index_map[n])) \o StrPng
             /\ ~UnderUnmatched(dst.dir)
        ELSE /\ dst = [dir |-> StrUnmatched, name |-> Key(n) \o StrPng]
             /\ UnderUnmatched(dst.dir)

\* the files of the output tree that hold what a convert call for
\* identifier k wrote
OutputsOf(k) == { f \in DOMAIN tree : tree[f].n = k }

\* C14: the run produces one converted image per identifier: at the end of
\* the run every successfully converted identifier has an output file of its
\* own in the output tree, so that two converted identifiers have distinct
\* files and there are as many output files as converted identifiers.
C14_OneImagePerIdentifier ==
    pc = "done" =>
        /\ \A a \in Converted : OutputsOf(a) # {}
        /\ Cardinality(UNION { OutputsOf(a) : a \in Converted }) = Cardinality(Converted)

\* C15: idempotence: when the backends are deterministic and the archive and
\* the blobs are unchanged, a second run over the output tree the first run
\* left ends with the same output tree (the same files with the same
\* contents) and the same counts of converted, failed and missing
\* identifiers.
C15_Idempotent == (run = 2 /\ pc = "done") => Left = first[1]

\* C16: whichever backend writes the destination, an image that decodes to
\* exactly two channels is written with four channels, the first two the
\* decoded ones and the last two all zero; no destination file ever has two
\* channels.
C16_TwoChannelPadded ==
    \A f \in DOMAIN tree :
        /\ Len(tree[f].ch) # 2
        /\ (tree[f].n \in twoch /\ tree[f].size = "image")
               => tree[f].ch = << "r", "g", "zero", "zero" >>

\* the identifiers of the records of failed
FailedIds == { failed[i].n : i \in 1 .. Len(failed) }

\* seq holds no value twice and its values ascend
Ascending(seq) == \A i, j \in 1 .. Len(seq) : i < j => seq[i] < seq[j]

\* C17: at the end of every loop iteration and at the summary, every
\* identifier processed so far is in exactly one of converted, failed and
\* missing: ok + len(failed) + len(missing) is the number of identifiers
\* processed, failed and missing are disjoint and hold no duplicates, and
\* both are in ascending identifier order.
C17_OutcomePartition ==
    pc \in { "loop", "summary", "done" } =>
        /\ ok + Len(failed) + Len(missing) = n
        /\ ok = Cardinality(Converted)
        /\ Converted \cup FailedIds \cup ToSet(missing) = 0 .. (n - 1)
        /\ Converted \cap FailedIds = {}
        /\ Converted \cap ToSet(missing) = {}
        /\ FailedIds \cap ToSet(missing) = {}
        /\ Ascending([i \in 1 .. Len(failed) |-> failed[i].n])
        /\ Ascending(missing)

\* a run that went through every identifier and ended with at least one
\* converted and one failed
C17_Witness ==
    /\ pc = "done"
    /\ ok >= 1
    /\ Len(failed) >= 1
    /\ ok + Len(failed) + Len(missing) = N_TEXTURES

\* C18: convert reports success only if the destination file was written
\* during that call: when the destination, or the file texconv is expected
\* to write, is there from an earlier run or an earlier identifier and
\* texconv produces nothing in this call, convert does not return and the
\* stale file does not count as the output of this identifier.
C18_NoStaleSuccess ==
    pc = "returned" =>
        /\ Exists(tree, dst)
        /\ tree[dst].n = n
        /\ ret = "texconv" => calls[Len(calls)].outcome = "output"

\* OUTPUT_DIR (line 39) as its directories below the root of drive D:
\* "mio", "textures_final"
RootParts ==
    << << 109, 105, 111 >>,
       << 116, 101, 120, 116, 117, 114, 101, 115, 95, 102, 105, 110, 97, 108 >> >>

\* p begins with a separator: os.path.join(OUTPUT_DIR, p) then drops the
\* directories of OUTPUT_DIR and keeps its drive only
Rooted(p) == p # << >> /\ IsSep(p[1])

\* the index of the first separator of p, Len(p) + 1 when there is none
FirstSep(p) ==
    IF \E i \in 1 .. Len(p) : IsSep(p[i])
    THEN CHOOSE i \in 1 .. Len(p) : IsSep(p[i]) /\ \A j \in 1 .. i - 1 : ~IsSep(p[j])
    ELSE Len(p) + 1

RECURSIVE Split(_)
\* the components of p, the text between its separators
Split(p) ==
    LET cut == FirstSep(p)
    IN  IF cut > Len(p) THEN << p >>
        ELSE << SubSeq(p, 1, cut - 1) >> \o Split(SubSeq(p, cut + 1, Len(p)))

RECURSIVE Walk(_, _)
\* the directory the file system reaches from the directory at, given as
\* its components below the drive root, by following the components comps:
\* an empty component and "." stay, ".." goes up, a name goes down
Walk(at, comps) ==
    IF comps = << >> THEN at
    ELSE LET c == Head(comps)
         IN  CASE c = << >> \/ c = << 46 >> -> Walk(at, Tail(comps))
               [] c = << 46, 46 >> ->
                    Walk(SubSeq(at, 1, Len(at) - 1), Tail(comps))
               [] OTHER -> Walk(Append(at, c), Tail(comps))

\* os.path.join(OUTPUT_DIR, dir) (lines 162, 186) as the directory it names
Joined(dir) == IF Rooted(dir) THEN Walk(<< >>, Split(dir)) ELSE Walk(RootParts, Split(dir))

\* the directory os.path.join(OUTPUT_DIR, dir) is the output root or lies
\* below it
Inside(dir) ==
    LET at == Joined(dir)
    IN  Len(at) >= Len(RootParts) /\ SubSeq(at, 1, Len(RootParts)) = RootParts

\* C19: whatever path strings the archive metadata decodes to, absolute
\* ones and ones with '..' components included, every directory the run
\* creates and every destination file it writes lies inside the output
\* root.
C19_InsideOutputRoot ==
    /\ \A d \in dirs : Inside(d.dir)
    /\ \A f \in DOMAIN tree : tree[f].n \in Ids => Inside(f.dir)

====
